---- MODULE Spec2Model ----
(***************************************************************************)
(* Model of full_console.py: the serial link (SensorLink), the command     *)
(* handlers of the console (SensorGUI) that run on the Tk main thread, and *)
(* the gamma upload worker thread (_gamma_load_worker).                    *)
(*                                                                         *)
(* Threads: thread 0 is the Tk main loop, threads 1..MaxWorkers are the    *)
(* worker threads started by _on_gamma_load.  The threads share the link   *)
(* (self.link.ser), the loaded image (self.gamma_mem) and the queue of     *)
(* callbacks posted with self.after; nothing in the program locks any of   *)
(* them, so the model interleaves the threads at every statement that      *)
(* reads or writes shared state.                                           *)
(***************************************************************************)
EXTENDS Integers, Sequences, FiniteSets, TLC

VARIABLES
    ser,                \* self.link.ser: "None", "open", or "closed" (closed, not yet None)
    connect_btn,        \* connect button is in state 'normal'
    control_frame,      \* self.control_frame is not None (the control UI exists)
    gamma_load_btn,     \* "Gamma Load" button exists and is in state 'normal'
    gamma_loadfile_btn, \* "Load .mem..." button exists and is in state 'normal'
    gamma_mem,          \* self.gamma_mem: 0 is None, n > 0 is the image of file n
    afterq,             \* callbacks posted with self.after(0, ...), in order
    dialog,             \* the message box on screen, "none" when there is none
    mpc,                \* where the main thread is: "idle" or inside a handler
    sc,                 \* per thread: the activation of SensorLink.send_cmd
    rx,                 \* the main thread's send_cmd: the line readline returned last,
                        \* and whether the loop went on past an earlier line
    wk,                 \* per worker thread: the locals of _gamma_load_worker
    written,            \* per thread: the lines its current job or handler handed to ser.write
    disc,               \* live worker threads whose job was Running when the link was closed
    entry               \* the Entry widget of the row the operator works on: [row, text]

vars == <<ser, connect_btn, control_frame, gamma_load_btn, gamma_loadfile_btn,
          gamma_mem, afterq, dialog, mpc, sc, rx, wk, written, disc, entry>>

(***************************************************************************)
(* Bounds of the model.                                                    *)
(***************************************************************************)
MaxWorkers == 2      \* worker threads alive at once
MaxQueue   == 1      \* callbacks waiting in the Tk queue
RaceTail   == 1      \* the operator acts during a transfer only in its last RaceTail words

(***************************************************************************)
(* Program constants.                                                      *)
(***************************************************************************)
GAMMA_WORDS == 128       \* lines of a .mem file, and the cap of the upload loop
GAMMA_BASE  == 333568    \* 0x51700, base_addr of the first word
ADDR_STEP   == 4         \* base_addr += 4

MainThread == 0
Workers    == 1..MaxWorkers
Threads    == 0..MaxWorkers

Min(a, b) == IF a < b THEN a ELSE b

(***************************************************************************)
(* Formatting: f"{n:X}" and f"{n:08X}".                                    *)
(***************************************************************************)
HexDigit(d) == <<"0","1","2","3","4","5","6","7","8","9","A","B","C","D","E","F">>[d + 1]

RECURSIVE HexStr(_)
HexStr(n) == IF n < 16 THEN HexDigit(n) ELSE HexStr(n \div 16) \o HexDigit(n % 16)

RECURSIVE ZeroPad(_, _)
ZeroPad(s, w) == IF Len(s) >= w THEN s ELSE ZeroPad("0" \o s, w)

\* f"{data:08X}" of the word hi * 65536 + lo
Hex8(data) == ZeroPad(HexStr(data.hi), 4) \o ZeroPad(HexStr(data.lo), 4)

(***************************************************************************)
(* SensorLink.send_cmd, lines 103-131.                                     *)
(*                                                                         *)
(* Bytes are tokens: ">" and " " are themselves, "CR" and "LF" the line    *)
(* end, "x80" a byte that is not ASCII, anything else a printable          *)
(* character.  A line is a sequence of bytes as ser.readline() returns it. *)
(***************************************************************************)
NonAscii    == {"x80"}
WhiteSpace  == {" ", "CR", "LF"}
PromptChars == {">", " "}

RxLines == {
    <<"CR", "LF">>,                     \* an empty line
    <<">", " ", "CR", "LF">>,           \* a prompt and nothing else
    <<"x80", "LF">>,                    \* bytes that do not decode
    <<"5", "CR", "LF">>,                \* a value
    <<">", " ", "5", "CR", "LF">>,      \* a prompt, then the value
    <<">", ">", " ", "5", "LF">>,       \* two prompt markers, then the value
    <<"5", " ", ">", "LF">>,            \* a value that holds a '>' itself
    <<"x80", "K">> }                    \* a partial line, cut by the serial timeout

\* lines a device sends in answer to a read, besides those above: a value
\* with the prefix 0x or 0X, and a negative value
ValueLines == {
    <<"0", "x", "1", "F", "CR", "LF">>,
    <<"0", "X", "1", "f", "LF">>,
    <<"-", "7", "LF">> }

\* what readline may return after the command cmd was written
Replies(cmd) ==
    IF cmd[1] \in {"S", "C", "T", "F"} /\ cmd[2] = "R" THEN RxLines \cup ValueLines
    ELSE RxLines

\* nothing read yet: readline returns b'' until a line arrives.  Of the input
\* of the port the record keeps: the line read last and whether it was sent in
\* reply to an earlier command (stale), whether a line was read before it, and
\* whether the reply to an earlier command, which send_cmd gave up waiting
\* for, may still arrive (owed).
NoLine == <<>>
NoRx   == [last |-> NoLine, skipped |-> FALSE, owed |-> FALSE, stale |-> FALSE]

\* who may have sent the next line of the input: send_cmd never empties the
\* input before it writes, so a reply still owed is read as any other line
IsStale(t, r) == IF t = MainThread /\ r.owed THEN BOOLEAN ELSE {FALSE}

\* the input when a call of send_cmd is over: when it returned "" at the
\* deadline (line 131), the reply to its command is owed
Unread(call, r) ==
    [NoRx EXCEPT !.owed = r.owed \/ (call.pc = "ret" /\ call.text = <<>>)]

RECURSIVE LStrip(_, _)
LStrip(s, chars) ==
    IF s = <<>> \/ Head(s) \notin chars THEN s ELSE LStrip(Tail(s), chars)

RECURSIVE RStrip(_, _)
RStrip(s, chars) ==
    IF s = <<>> \/ s[Len(s)] \notin chars THEN s
    ELSE RStrip(SubSeq(s, 1, Len(s) - 1), chars)

\* str.strip()
Strip(s) == RStrip(LStrip(s, WhiteSpace), WhiteSpace)

\* bytes.decode("ascii", errors="ignore")
DecodeAscii(line) == SelectSeq(line, LAMBDA b : b \notin NonAscii)

\* a cleaning that takes off one '>' and the whitespace that follows it
CleanSingleMarker(line) ==
    LET text == Strip(DecodeAscii(line))
    IN  IF text # <<>> /\ Head(text) = ">" THEN Strip(Tail(text)) ELSE text

\* lines 120-126: decode, strip, lstrip('> '), strip
Clean(line) == Strip(LStrip(Strip(DecodeAscii(line)), PromptChars))

(***************************************************************************)
(* Text of the entry boxes.  A text is the sequence of its characters.     *)
(***************************************************************************)
DecDigits == {"0", "1", "2", "3", "4", "5", "6", "7", "8", "9"}
HexDigits == DecDigits \cup {"a", "b", "c", "d", "e", "f", "A", "B", "C", "D", "E", "F"}

\* str.upper() and str.lower(), for the letters that occur
UpperChar(c) ==
    CASE c = "a" -> "A" [] c = "b" -> "B" [] c = "c" -> "C" [] c = "d" -> "D"
      [] c = "e" -> "E" [] c = "f" -> "F" [] c = "x" -> "X" [] OTHER -> c

LowerChar(c) ==
    CASE c = "A" -> "a" [] c = "B" -> "b" [] c = "C" -> "c" [] c = "D" -> "d"
      [] c = "E" -> "e" [] c = "F" -> "f" [] c = "X" -> "x" [] c = "Z" -> "z"
      [] OTHER -> c

Upper(s) == [k \in 1..Len(s) |-> UpperChar(s[k])]

\* value.lower().startswith("0x")
StartsWith0x(s) == Len(s) >= 2 /\ s[1] = "0" /\ LowerChar(s[2]) = "x"

\* value[2:]
Drop2(s) == SubSeq(s, 3, Len(s))

\* "if value.lower().startswith('0x'): value = value[2:]"
Strip0x(s) == IF StartsWith0x(s) THEN Drop2(s) ELSE s

\* str.zfill(w): zeros on the left, after a sign
RECURSIVE ZFill(_, _)
ZFill(s, w) ==
    IF Len(s) >= w THEN s
    ELSE IF s # <<>> /\ s[1] \in {"+", "-"} THEN <<s[1]>> \o ZFill(Tail(s), w - 1)
    ELSE ZFill(<<"0">> \o s, w)

(***************************************************************************)
(* int(text, base) of Python: surrounding white space, a sign, for base 16 *)
(* a prefix 0x or 0X, then digits, where one underscore may stand between  *)
(* two digits (and between the prefix and the first digit).                *)
(***************************************************************************)
Unsigned(s) == IF s # <<>> /\ s[1] \in {"+", "-"} THEN Tail(s) ELSE s

DigitGroups(s, digits) ==
    /\ s # <<>>
    /\ s[1] \in digits
    /\ s[Len(s)] \in digits
    /\ \A k \in 1..Len(s) : s[k] \in digits \cup {"_"}
    /\ \A k \in 1..(Len(s) - 1) : ~(s[k] = "_" /\ s[k + 1] = "_")

\* int(text, 16) does not raise ValueError
IsInt16(text) ==
    LET body == Unsigned(Strip(text))
        rest == Drop2(body)
    IN  IF StartsWith0x(body)
        THEN DigitGroups(IF rest # <<>> /\ rest[1] = "_" THEN Tail(rest) ELSE rest, HexDigits)
        ELSE DigitGroups(body, HexDigits)

\* int(text, 10) does not raise ValueError
IsInt10(text) == DigitGroups(Unsigned(Strip(text)), DecDigits)

DigitVal(c) ==
    CASE c = "0" -> 0 [] c = "1" -> 1 [] c = "2" -> 2 [] c = "3" -> 3 [] c = "4" -> 4
      [] c = "5" -> 5 [] c = "6" -> 6 [] c = "7" -> 7 [] c = "8" -> 8 [] c = "9" -> 9

RECURSIVE DecValue(_)
DecValue(s) ==
    IF s = <<>> THEN 0
    ELSE IF s[Len(s)] = "_" THEN DecValue(SubSeq(s, 1, Len(s) - 1))
    ELSE 10 * DecValue(SubSeq(s, 1, Len(s) - 1)) + DigitVal(s[Len(s)])

\* int(text, 10), for a text that is one
Int10(text) ==
    LET t == Strip(text)
    IN  IF t[1] = "-" THEN 0 - DecValue(Tail(t)) ELSE DecValue(Unsigned(t))

DecChar(d) == <<"0", "1", "2", "3", "4", "5", "6", "7", "8", "9">>[d + 1]

RECURSIVE NatStr(_)
NatStr(n) == IF n < 10 THEN <<DecChar(n)>> ELSE NatStr(n \div 10) \o <<DecChar(n % 10)>>

\* str(n)
IntStr(n) == IF n < 0 THEN <<"-">> \o NatStr(0 - n) ELSE NatStr(n)

\* no row touched yet
NoEntry == [row |-> [h |-> "none", addr |-> "", cmd_type |-> "", mode |-> ""], text |-> <<>>]

\* an is_connected that only tests for a handle
IsConnectedAnyHandle == ser # "None"

\* SensorLink.is_connected, lines 81-83: self.ser is not None and self.ser.is_open
IsConnected == ser # "None" /\ ser = "open"

NoCall == [pc |-> "none", cmd |-> <<>>, text |-> <<>>, exc |-> "none"]

\* the activation record of send_cmd(cmd) at its first statement
Call(cmd) == [pc |-> "chk", cmd |-> cmd, text |-> <<>>, exc |-> "none"]

Returned(f)  == f.pc = "ret"
Raised(f)    == f.pc = "raise"

\* What send_cmd raises: "Not connected" is the RuntimeError of line 106;
\* "write failed" and "read failed" are the SerialException of a ser.write or
\* a ser.readline on an open link whose transport fails; an access to
\* self.ser when the link is not open raises as follows.
SerError == IF ser = "None" THEN "AttributeError" ELSE "PortNotOpenError"

\* a send_cmd without the connection test of lines 105-106
CheckNothing(f) == [f EXCEPT !.pc = "write"]

\* lines 105-106
CheckConnected(f) ==
    IF IsConnected THEN [f EXCEPT !.pc = "write"]
    ELSE [f EXCEPT !.pc = "raise", !.exc = "Not connected"]

\* a read loop that returns whatever line it gets, empty or not
ReturnsAnyLine(text) == TRUE

\* line 127: "if text:"
ReturnsLine(text) == text # <<>>

\* a read loop that raises at the deadline
DeadlineRaises(f) == [f EXCEPT !.pc = "raise", !.exc = "timeout"]

\* line 131: the deadline passed
OnDeadline(f) == [f EXCEPT !.pc = "ret", !.text = <<>>]

\* a line that ends in LF alone
EncodedLF(cmd) == [cmd |-> cmd, eol |-> <<"LF">>]

\* line 109: (cmd + "\r\n").encode("ascii"), the bytes handed to ser.write:
\* the command and the line end after it
Encoded(cmd) == [cmd |-> cmd, eol |-> <<"CR", "LF">>]

\* lines 105-106: the connection test
SendChk(t) ==
    /\ sc[t].pc = "chk"
    /\ sc' = [sc EXCEPT ![t] = CheckConnected(sc[t])]
    /\ UNCHANGED <<ser, rx, written>>

\* lines 109-113: ser.write, then a flush whose errors are swallowed.  The
\* write raises when the link was closed since the test, and may raise on an
\* open link when the transport fails.
SendWrite(t) ==
    /\ sc[t].pc = "write"
    /\ \/ /\ ser = "open"
          /\ written' = [written EXCEPT ![t] = Append(@, Encoded(sc[t].cmd))]
          /\ \/ sc' = [sc EXCEPT ![t].pc = "read"]
             \/ sc' = [sc EXCEPT ![t].pc = "raise", ![t].exc = "write failed"]
       \/ /\ ser # "open"
          /\ sc' = [sc EXCEPT ![t].pc = "raise", ![t].exc = SerError]
          /\ UNCHANGED written
    /\ UNCHANGED <<ser, rx>>

\* lines 115-131: the read loop.  One step is one turn of the loop: the
\* deadline test, then a readline that returns a line, or raises.  A readline
\* that returns b'' changes nothing and is left out.
SendRead(t) ==
    /\ sc[t].pc = "read"
    /\ \/ /\ sc' = [sc EXCEPT ![t] = OnDeadline(sc[t])]
          /\ UNCHANGED rx
       \/ /\ ser = "open"
          /\ \E stale \in IsStale(t, rx) :
             \E line \in (IF stale THEN RxLines \cup ValueLines ELSE Replies(sc[t].cmd)) :
                /\ rx' = IF t = MainThread
                         THEN [last |-> line, skipped |-> rx.last # NoLine,
                               owed |-> rx.owed /\ ~stale, stale |-> stale]
                         ELSE rx
                /\ sc' = IF ReturnsLine(Clean(line))
                         THEN [sc EXCEPT ![t].pc = "ret", ![t].text = Clean(line)]
                         ELSE sc
       \/ /\ ser = "open"
          /\ sc' = [sc EXCEPT ![t].pc = "raise", ![t].exc = "read failed"]
          /\ UNCHANGED rx
       \/ /\ ser # "open"
          /\ sc' = [sc EXCEPT ![t].pc = "raise", ![t].exc = SerError]
          /\ UNCHANGED rx
    /\ UNCHANGED <<ser, written>>

\* a step of send_cmd in thread t; the caller's own state does not change
SendCmd(t) ==
    /\ SendChk(t) \/ SendWrite(t) \/ SendRead(t)
    /\ UNCHANGED <<connect_btn, control_frame, gamma_load_btn, gamma_loadfile_btn,
                   gamma_mem, afterq, dialog, mpc, wk, disc, entry>>

(***************************************************************************)
(* The gamma upload job of worker thread id, as the locals of              *)
(* _gamma_load_worker tell it.                                             *)
(***************************************************************************)
NoWorker == [pc |-> "unborn", i |-> 0, base_addr |-> 0, count |-> 0, err |-> "none"]

Running(id) == wk[id].pc \in {"start", "fmt", "send"}

JobStatus(id) ==
    IF wk[id].pc = "unborn" THEN "Idle"
    ELSE IF Running(id) THEN "Running"
    ELSE IF wk[id].err # "none" THEN "Failed"
    ELSE "Completed"

\* the thread of worker id exists
Alive(id) == wk[id].pc # "unborn"

\* worker id is at the last RaceTail words of its transfer, or past them
InTail(id) == wk[id].pc # "start" /\ wk[id].i >= GAMMA_WORDS - RaceTail

\* RaceTail bounds the overlaps the model explores.  The operator clicks only
\* while every live worker thread is at the last RaceTail words of its
\* transfer.
UserMayAct == \A id \in Workers : Alive(id) => InTail(id)

\* A worker thread that is not alone runs during the first and the last
\* RaceTail words of its transfer; in between it waits for the others to end.
Runnable(id) ==
    \/ \A j \in Workers \ {id} : ~Alive(j)
    \/ InTail(id)
    \/ wk[id].i < RaceTail

UserIdle == mpc = "idle" /\ dialog = "none" /\ UserMayAct

\* callbacks that all carry the index of the first word
EventNoIndex(kind, id, i, text) == [k |-> kind, by |-> id, i |-> 0, text |-> text]

\* a callback passed to self.after: its kind, the thread that posted it, and
\* the values bound to the lambda's default arguments
Event(kind, id, i, text) == [k |-> kind, by |-> id, i |-> i, text |-> text]

\* self.after(0, callback) from thread id
Post(ev) ==
    /\ Len(afterq) < MaxQueue
    /\ afterq' = Append(afterq, ev)

(***************************************************************************)
(* SensorLink.connect and SensorGUI._on_connect, lines 52-70 and 603-629.  *)
(***************************************************************************)
UART_PORT == "COM3"
Ports == {"", UART_PORT}

\* what serial.Serial(...) raises when the port cannot be opened
OpenErrors == {"could not open port"}

\* what self.ser.close() leaves behind: the handle closed, or, when close raised, as it was
CloseOutcomes == {"closed", ser}

\* a disconnect that forgets the handle only when close did not raise
DropHandleIfClosed == IF ser = "closed" THEN "None" ELSE ser

\* line 79: self.ser = None, after the try statement
DropHandle == "None"

\* a connect that forgets what went wrong
ConnectErrorNoCause(e) == "Failed to open UART port " \o UART_PORT

\* lines 69-70: the RuntimeError connect raises for the exception e
ConnectError(e) == "Failed to open UART port " \o UART_PORT \o ": " \o e

\* a connect that opens the port over the handle it holds
ConnectBeginNoDisconnect == "c_open"

\* lines 54-55: if self.ser is not None: self.disconnect()
ConnectBegin == IF ser # "None" THEN "c_close" ELSE "c_open"

OnConnect ==
    /\ UserIdle
    /\ connect_btn
    /\ \E selected \in Ports :
          IF selected = ""
          THEN /\ dialog' = "No port"
               /\ UNCHANGED mpc
          ELSE /\ mpc' = ConnectBegin
               /\ UNCHANGED dialog
    /\ UNCHANGED <<ser, connect_btn, control_frame, gamma_load_btn, gamma_loadfile_btn,
                   gamma_mem, afterq, sc, rx, wk, written, disc, entry>>

\* line 55 -> lines 75-78: self.ser.close() of the handle a failed connect left
\* behind; a close that raises leaves the handle as it is and is swallowed
ConnClose ==
    /\ mpc = "c_close"
    /\ ser' \in CloseOutcomes
    /\ disc' = disc \cup {id \in Workers : Running(id)}
    /\ mpc' = "c_null"
    /\ UNCHANGED <<connect_btn, control_frame, gamma_load_btn, gamma_loadfile_btn,
                   gamma_mem, afterq, dialog, sc, rx, wk, written, entry>>

\* line 79
ConnNull ==
    /\ mpc = "c_null"
    /\ ser' = DropHandle
    /\ mpc' = "c_open"
    /\ UNCHANGED <<connect_btn, control_frame, gamma_load_btn, gamma_loadfile_btn,
                   gamma_mem, afterq, dialog, sc, rx, wk, written, disc, entry>>

\* lines 57-67: serial.Serial(...) opens the port, and after the settle delay
\* connect calls send_cmd("V OFF"); or serial.Serial raises, into the except
\* clause of line 69 like anything send_cmd raises.  The input of a port just
\* opened holds nothing of an earlier connection.
ConnOpen ==
    /\ mpc = "c_open"
    /\ \/ /\ ser' = "open"
          /\ sc' = [sc EXCEPT ![MainThread] = Call(<<"V", "OFF">>)]
       \/ /\ \E e \in OpenErrors :
                sc' = [sc EXCEPT ![MainThread] = [NoCall EXCEPT !.pc = "raise", !.exc = e]]
          /\ UNCHANGED ser
    /\ mpc' = "c_send"
    /\ rx' = NoRx
    /\ UNCHANGED dialog
    /\ UNCHANGED <<connect_btn, control_frame, gamma_load_btn, gamma_loadfile_btn,
                   gamma_mem, afterq, wk, written, disc, entry>>

\* a connect that takes a device that does not answer V OFF for a failure
ConnectNeedsReply(call) == Returned(call) /\ call.text # <<>>

\* lines 67-68: the value of send_cmd("V OFF") is not looked at; connect
\* returns True when the call returned
ConnectReturns(call) == Returned(call)

\* lines 68-70 and 613-629: connect returned True, or raised the RuntimeError
\* of line 70, which _on_connect shows (showerror("Connection Error", str(e)))
ConnDone ==
    /\ mpc = "c_send"
    /\ Returned(sc[MainThread]) \/ Raised(sc[MainThread])
    /\ \/ /\ ConnectReturns(sc[MainThread])
          /\ connect_btn' = FALSE
          /\ control_frame' = TRUE
          /\ gamma_load_btn' = (control_frame => gamma_load_btn)
          /\ gamma_loadfile_btn' = (control_frame => gamma_loadfile_btn)
          /\ UNCHANGED dialog
       \/ /\ ~ConnectReturns(sc[MainThread])
          /\ dialog' = "Connection Error: " \o ConnectError(sc[MainThread].exc)
          /\ UNCHANGED <<connect_btn, control_frame, gamma_load_btn, gamma_loadfile_btn>>
    /\ sc' = [sc EXCEPT ![MainThread] = NoCall]
    /\ rx' = NoRx
    /\ written' = [written EXCEPT ![MainThread] = <<>>]
    /\ mpc' = "idle"
    /\ UNCHANGED <<ser, gamma_mem, afterq, wk, disc, entry>>

(***************************************************************************)
(* SensorLink.disconnect and SensorGUI._on_disconnect, lines 72-79 and     *)
(* 1070-1080.                                                              *)
(***************************************************************************)
\* lines 1073-1080: the connect button is enabled, the control UI destroyed
UiDestroyed ==
    /\ connect_btn' = TRUE
    /\ control_frame' = FALSE
    /\ gamma_load_btn' = FALSE
    /\ gamma_loadfile_btn' = FALSE

OnDisconnect ==
    /\ UserIdle
    /\ control_frame
    /\ IF ser # "None"
       THEN /\ mpc' = "d_close"
            /\ UNCHANGED <<connect_btn, control_frame, gamma_load_btn, gamma_loadfile_btn>>
       ELSE /\ UiDestroyed
            /\ UNCHANGED mpc
    /\ UNCHANGED <<ser, gamma_mem, afterq, dialog, sc, rx, wk, written, disc, entry>>

\* lines 75-78: self.ser.close(); a close that raises leaves the handle as it
\* is and is swallowed
DiscClose ==
    /\ mpc = "d_close"
    /\ ser' \in CloseOutcomes
    /\ disc' = disc \cup {id \in Workers : Running(id)}
    /\ mpc' = "d_null"
    /\ UNCHANGED <<connect_btn, control_frame, gamma_load_btn, gamma_loadfile_btn,
                   gamma_mem, afterq, dialog, sc, rx, wk, written, entry>>

\* line 79, then lines 1073-1080
DiscNull ==
    /\ mpc = "d_null"
    /\ ser' = DropHandle
    /\ UiDestroyed
    /\ mpc' = "idle"
    /\ UNCHANGED <<gamma_mem, afterq, dialog, sc, rx, wk, written, disc, entry>>

(***************************************************************************)
(* Handlers that send one command: _verbose_off (1062-1068), _upload_ccm   *)
(* (811-817) and _read_gamma_status (1022-1042).                           *)
(***************************************************************************)
CmdHandlers == {"verbose_off", "upload_ccm", "read_gamma_status"}

HandlerCmd(h) ==
    CASE h = "verbose_off"       -> <<"V", "OFF">>
      [] h = "upload_ccm"        -> <<"C", "U">>
      [] h = "read_gamma_status" -> <<"F", "R", "51400", "00">>

\* _read_gamma_status tests the link itself before it calls send_cmd
HandlerTestsLink(h) == h = "read_gamma_status"

OnCommand ==
    /\ UserIdle
    /\ control_frame
    /\ \E h \in CmdHandlers :
          IF HandlerTestsLink(h) /\ ~IsConnected
          THEN /\ dialog' = "Not connected"
               /\ UNCHANGED <<mpc, sc>>
          ELSE /\ sc' = [sc EXCEPT ![MainThread] = Call(HandlerCmd(h))]
               /\ mpc' = h
               /\ UNCHANGED dialog
    /\ UNCHANGED <<ser, connect_btn, control_frame, gamma_load_btn, gamma_loadfile_btn,
                   gamma_mem, afterq, rx, wk, written, disc, entry>>

\* send_cmd returned (the handler logs the response) or raised (showerror)
CommandDone ==
    /\ mpc \in CmdHandlers
    /\ \/ /\ Returned(sc[MainThread])
          /\ UNCHANGED dialog
       \/ /\ Raised(sc[MainThread])
          /\ dialog' = "Error"
    /\ sc' = [sc EXCEPT ![MainThread] = NoCall]
    /\ rx' = NoRx
    /\ written' = [written EXCEPT ![MainThread] = <<>>]
    /\ mpc' = "idle"
    /\ UNCHANGED <<ser, connect_btn, control_frame, gamma_load_btn, gamma_loadfile_btn,
                   gamma_mem, afterq, wk, disc, entry>>

(***************************************************************************)
(* SensorGUI._load_gamma_file, lines 889-935.  A .mem file is known by a   *)
(* number; its content is the sequence of its lines, each a text.  A 32-bit*)
(* word is kept as its two 16-bit halves, hi * 65536 + lo.                 *)
(***************************************************************************)
Images      == {1}        \* the files that hold a gamma image
ShortFile   == 2          \* one line too few
LongFile    == 3          \* one line too many
GarbledFile == 4          \* a token that is no number
WideFile    == 5          \* a word of 33 bits
MinusFile   == 6          \* a negative word
LockedFile  == 7          \* a file that cannot be read
Files       == Images \cup {ShortFile, LongFile, GarbledFile, WideFile, MinusFile, LockedFile}
OtherImage  == 8          \* a second file that holds a gamma image, of other words

\* n as w hex digits, a text
HexChars(n, w) == [k \in 1..w |-> HexDigit((n \div (16 ^ (w - k))) % 16)]
Lower(s) == [k \in 1..Len(s) |-> LowerChar(s[k])]

\* The word the generator wrote to line k (from 1) of file f: the top bit is
\* set, and the word differs from file to file and from line to line.
GenWord(f, k) == [hi |-> (65280 + f) % 65536, lo |-> ((k - 1) * 257) % 65536]

\* The spellings of a word in a file: bare digits, a 0x prefix with lower
\* case digits, a comment after the word, indentation and a 0X prefix, and
\* an underscore between the halves.
GenLine(f, k) ==
    LET w      == GenWord(f, k)
        digits == HexChars(w.hi, 4) \o HexChars(w.lo, 4)
    IN  CASE k % 5 = 1 -> digits \o <<"LF">>
          [] k % 5 = 2 -> <<"0", "x">> \o Lower(digits) \o <<"LF">>
          [] k % 5 = 3 -> digits \o <<" ", ";", "c", "LF">>
          [] k % 5 = 4 -> <<" ", "0", "X">> \o digits \o <<"CR", "LF">>
          [] OTHER     -> HexChars(w.hi, 4) \o <<"_">> \o HexChars(w.lo, 4) \o <<"LF">>

\* the lines of file f that are not blank, as the generator wrote them
GenCount(f) ==
    CASE f = ShortFile -> GAMMA_WORDS - 1
      [] f = LongFile  -> GAMMA_WORDS + 1
      [] OTHER         -> GAMMA_WORDS

\* the line that makes a file bad: its place among the lines that are not
\* blank, and its text
BadLine(f) ==
    CASE f = GarbledFile -> [k |-> 3, text |-> <<"F", "F", "0", "1", "0", "0", "0", "G", "LF">>]
      [] f = WideFile    -> [k |-> GAMMA_WORDS,
                             text |-> <<"1", "0", "0", "0", "0", "0", "0", "0", "0", "LF">>]
      [] f = MinusFile   -> [k |-> 1, text |-> <<"-", "1", "LF">>]
      [] OTHER           -> [k |-> 0, text |-> <<>>]

\* f.readlines(): a blank line after the second line and one at the end
ReadLines(f) ==
    [j \in 1..(GenCount(f) + 2) |->
        IF j = 3 \/ j = GenCount(f) + 2 THEN <<"LF">>
        ELSE LET k == IF j < 3 THEN j ELSE j - 1
             IN  IF k = BadLine(f).k THEN BadLine(f).text ELSE GenLine(f, k)]

\* lines 900-903: strip every line, drop the empty ones
Items(f) ==
    LET lines == ReadLines(f)
    IN  SelectSeq([j \in 1..Len(lines) |-> Strip(lines[j])], LAMBDA ln : ln # <<>>)

\* line 912: ln.split()[0]
RECURSIVE UntilSpace(_)
UntilSpace(s) ==
    IF s = <<>> \/ Head(s) \in WhiteSpace THEN <<>> ELSE <<Head(s)>> \o UntilSpace(Tail(s))

FirstToken(ln) == UntilSpace(LStrip(ln, WhiteSpace))

HexDigitVal(c) ==
    CASE c \in DecDigits -> DigitVal(c)
      [] c \in {"a", "A"} -> 10 [] c \in {"b", "B"} -> 11 [] c \in {"c", "C"} -> 12
      [] c \in {"d", "D"} -> 13 [] c \in {"e", "E"} -> 14 [] c \in {"f", "F"} -> 15

RECURSIVE HexNat(_)
HexNat(s) ==
    IF s = <<>> THEN 0
    ELSE 16 * HexNat(SubSeq(s, 1, Len(s) - 1)) + HexDigitVal(s[Len(s)])

\* int(text, 16), for a text that is one: its sign and its magnitude, the
\* low 16 bits apart from the rest
Int16(text) ==
    LET t      == Strip(text)
        body   == Unsigned(t)
        core   == IF StartsWith0x(body) THEN Drop2(body) ELSE body
        digits == SelectSeq(core, LAMBDA c : c # "_")
        n      == Len(digits)
    IN  [neg |-> t[1] = "-",
         hi  |-> IF n > 4 THEN HexNat(SubSeq(digits, 1, n - 4)) ELSE 0,
         lo  |-> IF n > 4 THEN HexNat(SubSeq(digits, n - 3, n)) ELSE HexNat(digits)]

\* lines 913-914
FileToken(ln) == Strip0x(FirstToken(ln))

\* line 905: len(items) != 128
LineCountWrong(n) == n # GAMMA_WORDS

\* a range test that forgets the sign
WordOutOfRangeAbove(val) == val.hi > 65535

\* line 921: val < 0 or val > 0xFFFFFFFF
WordOutOfRange(val) ==
    \/ val.neg /\ (val.hi > 0 \/ val.lo > 0)
    \/ val.hi > 65535

\* lines 910-925: what the loop over the items finds for item k
ItemFault(items, k) ==
    IF ~IsInt16(FileToken(items[k])) THEN "Parse error"
    ELSE IF WordOutOfRange(Int16(FileToken(items[k]))) THEN "Value out of range"
    ELSE "none"

\* lines 898-935: the message box the load of file f ends with ("none" when
\* it ends with line 928) and the list parsed that line 928 stores
LoadGammaFile(f) ==
    IF f = LockedFile THEN [dialog |-> "Error", parsed |-> <<>>]
    ELSE LET items == Items(f) IN
         IF LineCountWrong(Len(items)) THEN [dialog |-> "Invalid file", parsed |-> <<>>]
         ELSE LET bad == {k \in 1..Len(items) : ItemFault(items, k) # "none"}
              IN  IF bad # {}
                  THEN [dialog |-> ItemFault(items, CHOOSE k \in bad : \A j \in bad : k <= j),
                        parsed |-> <<>>]
                  ELSE [dialog |-> "none",
                        parsed |-> [k \in 1..Len(items) |-> Int16(FileToken(items[k]))]]

\* what each file loads to
Loads == [f \in Files \cup {OtherImage} |-> LoadGammaFile(f)]

\* self.gamma_mem[i] and len(self.gamma_mem), for the file stored
Word(img, i) == Loads[img].parsed[i + 1]

ImageLen(img) == IF img = 0 THEN 0 ELSE Len(Loads[img].parsed)

\* the file dialog was cancelled: askopenfilename returned "" (lines 895-896)
NoPath == 0

\* a load that keeps the words parsed before the line at fault
StoredUpToFault(f, mem) == IF Loads[f].dialog \in {"Error", "Invalid file"} THEN mem ELSE f

\* self.gamma_mem after the load of file f: line 928 is the one assignment,
\* reached when no line was at fault
Stored(f, mem) == IF Loads[f].dialog # "none" THEN mem ELSE f

\* SensorGUI._load_gamma_file, lines 889-935, the operator choosing among the
\* files of the set offered
LoadFile(offered) ==
    /\ UserIdle
    /\ control_frame
    /\ gamma_loadfile_btn
    /\ \E f \in offered \cup {NoPath} :
          IF f = NoPath
          THEN UNCHANGED <<dialog, gamma_mem>>
          ELSE /\ gamma_mem' = Stored(f, gamma_mem)
               /\ IF Loads[f].dialog # "none"
                  THEN dialog' = Loads[f].dialog
                  ELSE UNCHANGED dialog
    /\ UNCHANGED <<ser, connect_btn, control_frame, gamma_load_btn, gamma_loadfile_btn,
                   afterq, mpc, sc, rx, wk, written, disc, entry>>

OnLoadFile == LoadFile(Files)

\* the same click with two image files to choose from
OnLoadAnyFile == LoadFile(Files \cup {OtherImage})

(***************************************************************************)
(* SensorGUI._on_gamma_load, lines 948-967.                                *)
(***************************************************************************)
\* an entry that does not test for a loaded image
StartGuardNoImageTest == IF ser # "open" THEN "Not connected" ELSE "start"

\* lines 950-956: what the entry tests decide
StartGuard ==
    IF gamma_mem = 0 THEN "No data"
    ELSE IF ~IsConnected THEN "Not connected"
    ELSE "start"

\* MaxWorkers bounds the worker threads alive at once: a start takes the first free one
NextWorker == CHOOSE id \in Workers : ~Alive(id) /\ \A j \in 1..(id - 1) : Alive(j)

OnGammaLoad ==
    /\ UserIdle
    /\ control_frame
    /\ gamma_load_btn
    /\ IF StartGuard # "start"
       THEN /\ dialog' = StartGuard
            /\ UNCHANGED <<gamma_load_btn, gamma_loadfile_btn, wk>>
       ELSE /\ \E id \in Workers : wk[id].pc = "unborn"
            /\ gamma_load_btn' = FALSE
            /\ gamma_loadfile_btn' = FALSE
            /\ wk' = [wk EXCEPT ![NextWorker].pc = "start"]
            /\ UNCHANGED dialog
    /\ UNCHANGED <<ser, connect_btn, control_frame, gamma_mem, afterq, mpc, sc,
                   rx, written, disc, entry>>

(***************************************************************************)
(* The Tk main loop: message boxes and the callbacks posted with after.    *)
(***************************************************************************)
\* the operator closes the message box
DismissDialog ==
    /\ mpc = "idle"
    /\ UserMayAct
    /\ dialog # "none"
    /\ dialog' = "none"
    /\ UNCHANGED <<ser, connect_btn, control_frame, gamma_load_btn, gamma_loadfile_btn,
                   gamma_mem, afterq, mpc, sc, rx, wk, written, disc, entry>>

\* The main loop runs the oldest callback.  Lines 1014-1015 enable the two
\* buttons self.gamma_load_btn and self.gamma_loadfile_btn name when the
\* callback runs (a TclError when the control UI is destroyed); line 997
\* shows the write error; the other callbacks only log.
MainLoopEvent ==
    /\ mpc = "idle"
    /\ afterq # <<>>
    /\ afterq' = Tail(afterq)
    /\ LET ev == Head(afterq) IN
          /\ gamma_load_btn' = IF ev.k = "enable_load" /\ control_frame
                               THEN TRUE ELSE gamma_load_btn
          /\ gamma_loadfile_btn' = IF ev.k = "enable_file" /\ control_frame
                                   THEN TRUE ELSE gamma_loadfile_btn
          /\ dialog' = IF ev.k = "error" THEN "Write error" ELSE dialog
    /\ UNCHANGED <<ser, connect_btn, control_frame, gamma_mem, mpc, sc, rx,
                   wk, written, disc, entry>>

(***************************************************************************)
(* SensorGUI._gamma_load_worker, lines 969-1015, in worker thread id.      *)
(* When the thread ends its slot is free again.                            *)
(***************************************************************************)
\* a loop that stops one word short
LoopCountShort(len) == Min(len, GAMMA_WORDS) - 1

\* line 978
LoopCount(len) == Min(len, GAMMA_WORDS)

\* a command whose address is padded to eight digits like the data
GammaCmdPadded(base_addr, offset, data) ==
    <<"F", "W", ZeroPad(HexStr(base_addr), 8), ZeroPad(HexStr(offset), 2), Hex8(data)>>

\* lines 983-987
GammaCmd(base_addr, offset, data) ==
    <<"F", "W", HexStr(base_addr), ZeroPad(HexStr(offset), 2), Hex8(data)>>

\* a worker whose thread ends at the failure, without the finally clause
AfterRaiseEndsThread(w, e) == [w EXCEPT !.err = e, !.pc = "unborn"]

\* a worker that reports the error and tries the same word again
AfterRaiseRetry(w, e) == [w EXCEPT !.err = e, !.pc = "fmt"]

\* a worker that takes an empty response for a failure
AfterReturnNeedsReply(w, text) ==
    IF text = <<>>
    THEN [w EXCEPT !.err = "no reply", !.pc = "fin1"]
    ELSE [w EXCEPT !.base_addr = @ + 4,
                   !.i = @ + 1,
                   !.pc = IF w.i + 1 < w.count THEN "fmt" ELSE "else1"]

\* a worker that moves the address on before it leaves the loop
AfterRaiseAdvances(w, e) == [w EXCEPT !.err = e, !.pc = "fin1", !.base_addr = @ + ADDR_STEP]

\* a worker that ends the transfer, without an error, when the device is silent
AfterReturnStopsOnEmpty(w, text) ==
    IF text = <<>>
    THEN [w EXCEPT !.pc = "fin1"]
    ELSE [w EXCEPT !.base_addr = @ + ADDR_STEP,
                   !.i = @ + 1,
                   !.pc = IF w.i + 1 < w.count THEN "fmt" ELSE "else1"]

\* a worker that reports the error and ends the loop without break, so that
\* the else clause of the for statement runs
AfterRaiseFallsThrough(w, e) == [w EXCEPT !.err = e, !.pc = "else1"]

\* lines 995-998: send_cmd raised e; the error is reported and the loop left
AfterRaise(w, e) == [w EXCEPT !.err = e, !.pc = "fin1"]

\* lines 1000-1007: send_cmd returned text; the response is not looked at,
\* the address moves on and the loop goes to the next index, or ends
AfterReturn(w, text) ==
    [w EXCEPT !.base_addr = @ + ADDR_STEP,
              !.i = @ + 1,
              !.pc = IF w.i + 1 < w.count THEN "fmt" ELSE "else1"]

\* lines 975-979
WStart(id) ==
    /\ wk[id].pc = "start"
    /\ LET count == LoopCount(ImageLen(gamma_mem)) IN
          wk' = [wk EXCEPT ![id] = [pc |-> IF count > 0 THEN "fmt" ELSE "else1",
                                    i |-> 0, base_addr |-> GAMMA_BASE,
                                    count |-> count, err |-> "none"]]
    /\ UNCHANGED <<afterq, sc>>

\* lines 980-994: the command is built from self.gamma_mem[i], its log
\* callback posted, and send_cmd called
WFmt(id) ==
    /\ wk[id].pc = "fmt"
    /\ LET cmd == GammaCmd(wk[id].base_addr, 0, Word(gamma_mem, wk[id].i)) IN
          /\ Post(Event("log_cmd", id, wk[id].i, cmd))
          /\ sc' = [sc EXCEPT ![id] = Call(cmd)]
    /\ wk' = [wk EXCEPT ![id].pc = "send"]

\* lines 994-1007: send_cmd is over
WAfterSend(id) ==
    /\ wk[id].pc = "send"
    /\ \/ /\ Raised(sc[id])
          /\ Post(Event("error", id, wk[id].i, <<>>))
          /\ wk' = [wk EXCEPT ![id] = AfterRaise(wk[id], sc[id].exc)]
       \/ /\ Returned(sc[id])
          /\ Post(Event("progress", id, wk[id].i, sc[id].text))
          /\ wk' = [wk EXCEPT ![id] = AfterReturn(wk[id], sc[id].text)]
    /\ sc' = [sc EXCEPT ![id] = NoCall]

\* lines 1009-1010: the two callbacks of the completion summary
WElse(id) ==
    /\ wk[id].pc \in {"else1", "else2"}
    /\ Post(Event(IF wk[id].pc = "else1" THEN "done_label" ELSE "done_log",
                  id, wk[id].count, <<>>))
    /\ wk' = [wk EXCEPT ![id].pc = IF wk[id].pc = "else1" THEN "else2" ELSE "fin1"]
    /\ UNCHANGED sc

\* lines 1012-1015: finally, the two callbacks that enable the buttons again;
\* after the second the thread ends and its locals are gone
WFinally(id) ==
    /\ wk[id].pc \in {"fin1", "fin2"}
    /\ Post(Event(IF wk[id].pc = "fin1" THEN "enable_load" ELSE "enable_file",
                  id, 0, <<>>))
    /\ IF wk[id].pc = "fin1"
       THEN /\ wk' = [wk EXCEPT ![id].pc = "fin2"]
            /\ UNCHANGED <<written, disc>>
       ELSE /\ wk' = [wk EXCEPT ![id] = NoWorker]
            /\ written' = [written EXCEPT ![id] = <<>>]
            /\ disc' = disc \ {id}
    /\ UNCHANGED sc

Worker(id) ==
    /\ \/ (WStart(id) \/ WFmt(id) \/ WAfterSend(id) \/ WElse(id)) /\ UNCHANGED <<written, disc>>
       \/ WFinally(id)
    /\ UNCHANGED <<ser, connect_btn, control_frame, gamma_load_btn, gamma_loadfile_btn,
                   gamma_mem, dialog, mpc, rx, entry>>

(***************************************************************************)
(* The write handlers.  Each decides from the text of its entry box what   *)
(* to do: call send_cmd with a command, or return, with or without a       *)
(* message box.                                                            *)
(***************************************************************************)
Sends(cmd)   == [send |-> TRUE, cmd |-> cmd, dialog |-> "none"]
Refuses(box) == [send |-> FALSE, cmd |-> <<>>, dialog |-> box]

\* a range test that leaves out the bounds themselves
OutOfRangeStrict(intval, cmd_type) ==
    LET max_val == IF cmd_type = "T" THEN 255 ELSE 99
    IN  intval <= 0 - max_val \/ intval >= max_val

\* lines 783-792 of _write: the range of the namespace
OutOfRange(intval, cmd_type) ==
    LET max_val == IF cmd_type = "T" THEN 255 ELSE 99
    IN  intval < 0 - max_val \/ intval > max_val

\* a signed mode that sends the text as typed
SignedTokenAsTyped(value) == value

\* line 795 of _write: value_to_send = str(intval)
SignedToken(value) == IntStr(Int10(value))

\* SensorLink: lines 86-97 and 133-139
ccm_read(addr)                  == <<"C", "R", addr>>
ccm_write(addr, value)          == <<"C", "W", addr, value>>
translation_read(addr)          == <<"T", "R", addr>>
translation_write(addr, value)  == <<"T", "W", addr, value>>
read_reg(addr)                  == <<"S", "R", addr>>
write_reg(addr, value)          == <<"S", "W", addr, value>>

\* a router that sends every write to the sensor
RouteWriteSensorOnly(cmd_type, addr, value) == write_reg(addr, value)

\* lines 800-805 of _write
RouteWrite(cmd_type, addr, value) ==
    IF cmd_type = "C" THEN ccm_write(addr, value)
    ELSE IF cmd_type = "T" THEN translation_write(addr, value)
    ELSE write_reg(addr, value)

\* lines 729-734 of _read
RouteRead(cmd_type, addr) ==
    IF cmd_type = "C" THEN ccm_read(addr)
    ELSE IF cmd_type = "T" THEN translation_read(addr)
    ELSE read_reg(addr)

\* a _write whose hex branch sends the digits in upper case, as the clamp and
\* BLC handlers do
WriteRegUpper(addr, cmd_type, mode, text) ==
    LET value == Strip(text) IN
    IF value = <<>> THEN Refuses("none")
    ELSE IF mode = "hex"
    THEN IF Strip0x(value) = <<>> THEN Refuses("Invalid input")
         ELSE Sends(RouteWrite(cmd_type, addr, Upper(Strip0x(value))))
    ELSE IF ~IsInt10(value) THEN Refuses("Invalid input")
    ELSE IF OutOfRange(Int10(value), cmd_type) THEN Refuses("Out of range")
    ELSE Sends(RouteWrite(cmd_type, addr, SignedToken(value)))

\* SensorGUI._write, lines 752-809
WriteReg(addr, cmd_type, mode, text) ==
    LET value == Strip(text) IN
    IF value = <<>> THEN Refuses("none")
    ELSE IF mode = "hex"
    THEN IF Strip0x(value) = <<>> THEN Refuses("Invalid input")
         ELSE Sends(RouteWrite(cmd_type, addr, Strip0x(value)))
    ELSE IF ~IsInt10(value) THEN Refuses("Invalid input")
    ELSE IF OutOfRange(Int10(value), cmd_type) THEN Refuses("Out of range")
    ELSE Sends(RouteWrite(cmd_type, addr, SignedToken(value)))

\* SensorGUI._write_clamp_msb and _write_clamp_lsb, lines 171-195 and 220-244
WriteClamp(addr, text) ==
    LET value == Strip(text) IN
    IF value = <<>> THEN Refuses("Empty value")
    ELSE IF ~IsInt16(Strip0x(value)) THEN Refuses("Invalid Input")
    ELSE Sends(<<"S", "W", addr, Upper(Strip0x(value))>>)

\* SensorGUI._write_blc_offset, lines 246-280
WriteBlcOffset(address, text) ==
    LET value == Strip(text) IN
    IF value = <<>> THEN Refuses("Invalid Input")
    ELSE IF ~IsInt16(Strip0x(value)) THEN Refuses("Invalid Input")
    ELSE Sends(<<"F", "W", address, "00", Upper(Strip0x(value))>>)

\* SensorGUI._write_gamma_status, lines 1044-1060
WriteGammaStatus(text) ==
    LET value == Strip(text) IN
    IF value = <<>> THEN Refuses("Empty value")
    ELSE Sends(<<"F", "W", "51400", "00", value>>)

\* SensorGUI._load_preset_gamma, lines 862-887
LoadPresetGamma(text) ==
    LET value == Strip(text) IN
    IF value = <<>> THEN Refuses("Empty value")
    ELSE IF ~IsInt16(Strip0x(value)) THEN Refuses("Invalid input")
    ELSE Sends(<<"G", Upper(Strip0x(value))>>)

\* a button of the control UI: its handler and the arguments bound to it
Button(h, addr, cmd_type, mode) == [h |-> h, addr |-> addr, cmd_type |-> cmd_type, mode |-> mode]

\* the Write buttons: lines 663-686 (rows), 431-446 (BLC), 473 and 487 (clamp), 842, 854
WriteOps ==
    { Button("_write", "0157", "S", "hex"),
      Button("_write", "05", "C", "signed"),
      Button("_write", "02", "T", "signed"),
      Button("_write_clamp", "D1EA", "S", "hex"),
      Button("_write_clamp", "D1EB", "S", "hex"),
      Button("_write_gamma_status", "51400", "F", "hex"),
      Button("_load_preset_gamma", "", "G", "hex") }
    \cup { Button("_write_blc_offset", a, "F", "hex") : a \in {"51470", "51474", "51478", "5147C"} }

WriteOutcome(op, text) ==
    CASE op.h = "_write"              -> WriteReg(op.addr, op.cmd_type, op.mode, text)
      [] op.h = "_write_clamp"        -> WriteClamp(op.addr, text)
      [] op.h = "_write_blc_offset"   -> WriteBlcOffset(op.addr, text)
      [] op.h = "_write_gamma_status" -> WriteGammaStatus(text)
      [] op.h = "_load_preset_gamma"  -> LoadPresetGamma(text)

\* every handler but _read and _write tests is_connected() before anything else
TestsLink(op) == op.h \notin {"_read", "_write"}

\* what the operator types into an entry box
Inputs ==
    { <<>>, <<" ">>, <<"0", "x">>, <<"+">>,
      <<"1", "F">>, <<"1", "f">>, <<"0", "x", "1", "F">>, <<"0", "X", "1", "f">>,
      <<"Z", "Z">>, <<"0", "x", "Z">>, <<"-", "1", "F">>, <<"7", "a">>,
      <<"7">>, <<" ", "7", " ">>, <<"+", "0", "7">>, <<"0">>, <<"-", "0">>, <<"1", "_", "0">>,
      <<"5", "0">>, <<"9", "9">>, <<"1", "0", "0">>, <<"-", "9", "9">>, <<"-", "1", "0", "0">>,
      <<"2", "5", "5">>, <<"2", "5", "6">>, <<"-", "2", "5", "5">>, <<"-", "2", "5", "6">> }

\* the operator types a text and clicks the Write button of the row
OnWrite ==
    /\ UserIdle
    /\ control_frame
    /\ \E op \in WriteOps, text \in Inputs :
          /\ entry' = [row |-> op, text |-> text]
          /\ IF TestsLink(op) /\ ~IsConnected
             THEN /\ dialog' = "Not connected"
                  /\ UNCHANGED <<mpc, sc>>
             ELSE LET r == WriteOutcome(op, text) IN
                  IF r.send
                  THEN /\ sc' = [sc EXCEPT ![MainThread] = Call(r.cmd)]
                       /\ mpc' = "write_op"
                       /\ UNCHANGED dialog
                  ELSE /\ dialog' = r.dialog
                       /\ UNCHANGED <<mpc, sc>>
    /\ UNCHANGED <<ser, connect_btn, control_frame, gamma_load_btn, gamma_loadfile_btn,
                   gamma_mem, afterq, rx, wk, written, disc>>

\* send_cmd returned (the handler logs the response) or raised (showerror)
WriteDone ==
    /\ mpc = "write_op"
    /\ \/ /\ Returned(sc[MainThread])
          /\ UNCHANGED dialog
       \/ /\ Raised(sc[MainThread])
          /\ dialog' = "Error"
    /\ sc' = [sc EXCEPT ![MainThread] = NoCall]
    /\ rx' = NoRx
    /\ written' = [written EXCEPT ![MainThread] = <<>>]
    /\ mpc' = "idle"
    /\ UNCHANGED <<ser, connect_btn, control_frame, gamma_load_btn, gamma_loadfile_btn,
                   gamma_mem, afterq, wk, disc, entry>>

(***************************************************************************)
(* The read handlers: send the read command, then show the response in the *)
(* entry box of the row.                                                   *)
(***************************************************************************)
\* the Read buttons: lines 663-686 (rows), 384-418 (BLC), 468 and 482 (clamp), 851
ReadOps ==
    { Button("_read", "0157", "S", "hex"),
      Button("_read", "05", "C", "signed"),
      Button("_read", "02", "T", "signed"),
      Button("_read_clamp", "D1EA", "S", "hex"),
      Button("_read_clamp", "D1EB", "S", "hex"),
      Button("_read_blc", "51460", "F", "hex"),
      Button("_read_gamma_status", "51400", "F", "hex") }

ReadCmd(op) ==
    CASE op.h = "_read"       -> RouteRead(op.cmd_type, op.addr)
      [] op.h = "_read_clamp" -> <<"S", "R", op.addr>>
      [] OTHER                -> <<"F", "R", op.addr, "00">>

\* what the entry box may hold before the read
FieldTexts == { <<>>, <<"A", "B">> }

\* a display that removes the prefix in every mode
ShowRegBare(mode, resp) == Strip0x(resp)

\* SensorGUI._read, lines 736-747
ShowReg(mode, resp) ==
    IF resp = <<>> THEN <<>>
    ELSE IF StartsWith0x(resp) /\ mode = "hex" THEN Drop2(resp)
    ELSE resp

\* SensorGUI._read_clamp_msb and _read_clamp_lsb, lines 157-165 and 206-214
ShowClamp(resp, old) ==
    IF resp = <<>> THEN old ELSE Upper(Strip0x(Strip(resp)))

\* SensorGUI._read_blc_r (and g1, g2, b), lines 503-517
ShowBlc(resp, old) ==
    IF resp = <<>> THEN old ELSE ZFill(Upper(Strip0x(Strip(resp))), 8)

\* SensorGUI._read_gamma_status, lines 1033-1040
ShowGammaStatus(resp) == Upper(ZFill(Strip0x(Strip(resp)), 8))

\* the text of the entry box after the handler got resp from send_cmd
Display(op, resp, old) ==
    CASE op.h = "_read"              -> ShowReg(op.mode, resp)
      [] op.h = "_read_clamp"        -> ShowClamp(resp, old)
      [] op.h = "_read_blc"          -> ShowBlc(resp, old)
      [] op.h = "_read_gamma_status" -> ShowGammaStatus(resp)

\* the operator clicks the Read button of a row
OnRead ==
    /\ UserIdle
    /\ control_frame
    /\ \E op \in ReadOps, old \in FieldTexts :
          /\ entry' = [row |-> op, text |-> old]
          /\ IF TestsLink(op) /\ ~IsConnected
             THEN /\ dialog' = "Not connected"
                  /\ UNCHANGED <<mpc, sc>>
             ELSE /\ sc' = [sc EXCEPT ![MainThread] = Call(ReadCmd(op))]
                  /\ mpc' = "read_op"
                  /\ UNCHANGED dialog
    /\ UNCHANGED <<ser, connect_btn, control_frame, gamma_load_btn, gamma_loadfile_btn,
                   gamma_mem, afterq, rx, wk, written, disc>>

\* send_cmd returned and the response is shown, or it raised (showerror)
ReadDone ==
    /\ mpc = "read_op"
    /\ \/ /\ Returned(sc[MainThread])
          /\ entry' = [entry EXCEPT !.text = Display(entry.row, sc[MainThread].text, @)]
          /\ UNCHANGED dialog
       \/ /\ Raised(sc[MainThread])
          /\ dialog' = "Error"
          /\ UNCHANGED entry
    /\ sc' = [sc EXCEPT ![MainThread] = NoCall]
    /\ rx' = NoRx
    /\ written' = [written EXCEPT ![MainThread] = <<>>]
    /\ mpc' = "idle"
    /\ UNCHANGED <<ser, connect_btn, control_frame, gamma_load_btn, gamma_loadfile_btn,
                   gamma_mem, afterq, wk, disc>>

(***************************************************************************)
(* The program.                                                            *)
(***************************************************************************)
Init ==
    /\ ser = "None"
    /\ connect_btn = TRUE
    /\ control_frame = FALSE
    /\ gamma_load_btn = FALSE
    /\ gamma_loadfile_btn = FALSE
    /\ gamma_mem = 0
    /\ afterq = <<>>
    /\ dialog = "none"
    /\ mpc = "idle"
    /\ sc = [t \in Threads |-> NoCall]
    /\ rx = NoRx
    /\ wk = [id \in Workers |-> NoWorker]
    /\ written = [t \in Threads |-> <<>>]
    /\ disc = {}
    /\ entry = NoEntry

Next ==
    \/ OnConnect
    \/ ConnClose
    \/ ConnNull
    \/ ConnOpen
    \/ ConnDone
    \/ OnDisconnect
    \/ DiscClose
    \/ DiscNull
    \/ OnCommand
    \/ CommandDone
    \/ OnLoadFile
    \/ OnGammaLoad
    \/ DismissDialog
    \/ MainLoopEvent
    \/ SendCmd(MainThread)
    \/ \E id \in Workers : Runnable(id) /\ (SendCmd(id) \/ Worker(id))

Spec == Init /\ [][Next]_vars

(***************************************************************************)
(* SensorLink on its own: a caller on the main thread calls connect,       *)
(* disconnect and send_cmd in any order, disconnect also twice in a row.   *)
(***************************************************************************)
LinkUnchanged ==
    UNCHANGED <<connect_btn, control_frame, gamma_load_btn, gamma_loadfile_btn,
                gamma_mem, afterq, dialog, rx, wk, written, disc, entry>>

\* connect(port), lines 54-55
LinkConnect ==
    /\ mpc = "idle"
    /\ mpc' = ConnectBegin
    /\ UNCHANGED <<ser, sc>>
    /\ LinkUnchanged

\* connect returned True (line 68) or raised (line 70)
LinkConnDone ==
    /\ mpc = "c_send"
    /\ Returned(sc[MainThread]) \/ Raised(sc[MainThread])
    /\ sc' = [sc EXCEPT ![MainThread] = NoCall]
    /\ rx' = Unread(sc[MainThread], rx)
    /\ written' = [written EXCEPT ![MainThread] = <<>>]
    /\ mpc' = "idle"
    /\ UNCHANGED <<ser, connect_btn, control_frame, gamma_load_btn, gamma_loadfile_btn,
                   gamma_mem, afterq, dialog, wk, disc, entry>>

\* the commands the caller passes to send_cmd
LinkCmds == {<<"V", "OFF">>, <<"S", "R", "0157">>}

\* send_cmd(cmd) called by the caller
LinkSend ==
    /\ mpc = "idle"
    /\ \E cmd \in LinkCmds : sc' = [sc EXCEPT ![MainThread] = Call(cmd)]
    /\ mpc' = "l_send"
    /\ UNCHANGED ser
    /\ LinkUnchanged

LinkSendDone ==
    /\ mpc = "l_send"
    /\ Returned(sc[MainThread]) \/ Raised(sc[MainThread])
    /\ sc' = [sc EXCEPT ![MainThread] = NoCall]
    /\ rx' = Unread(sc[MainThread], rx)
    /\ written' = [written EXCEPT ![MainThread] = <<>>]
    /\ mpc' = "idle"
    /\ UNCHANGED <<ser, connect_btn, control_frame, gamma_load_btn, gamma_loadfile_btn,
                   gamma_mem, afterq, dialog, wk, disc, entry>>

\* disconnect(), line 74: the first call, and a second one right after it
LinkDisconnect ==
    /\ mpc \in {"idle", "l_done"}
    /\ mpc' = IF ser # "None" THEN "d_close"
              ELSE IF mpc = "idle" THEN "l_done" ELSE "l_done2"
    /\ UNCHANGED <<ser, sc>>
    /\ LinkUnchanged

\* line 79, and disconnect returns
LinkNull ==
    /\ mpc = "d_null"
    /\ ser' = DropHandle
    /\ mpc' = "l_done"
    /\ UNCHANGED sc
    /\ LinkUnchanged

\* the caller goes on
LinkReturn ==
    /\ mpc \in {"l_done", "l_done2"}
    /\ mpc' = "idle"
    /\ UNCHANGED <<ser, sc>>
    /\ LinkUnchanged

LinkNext ==
    \/ LinkConnect
    \/ ConnClose
    \/ ConnNull
    \/ ConnOpen
    \/ LinkConnDone
    \/ LinkSend
    \/ LinkSendDone
    \/ LinkDisconnect
    \/ DiscClose
    \/ LinkNull
    \/ LinkReturn
    \/ SendCmd(MainThread)

LinkSpec == Init /\ [][LinkNext]_vars

(***************************************************************************)
(* The console with its read and write handlers, and no gamma upload: all  *)
(* of it runs on the main thread.                                          *)
(***************************************************************************)
ConsoleNext ==
    \/ OnConnect
    \/ ConnClose
    \/ ConnNull
    \/ ConnOpen
    \/ ConnDone
    \/ OnDisconnect
    \/ DiscClose
    \/ DiscNull
    \/ OnCommand
    \/ CommandDone
    \/ OnWrite
    \/ WriteDone
    \/ OnRead
    \/ ReadDone
    \/ DismissDialog
    \/ SendCmd(MainThread)

ConsoleSpec == Init /\ [][ConsoleNext]_vars

(***************************************************************************)
(* The console that is connected and stays so: the operator loads files    *)
(* and starts transfers, and does not disconnect.  To it is added what the *)
(* scheduling of the program guarantees.  A handler that runs on the main  *)
(* thread goes on to its end; send_cmd comes to its deadline (lines        *)
(* 115-116: every readline returns within the timeout of the port, line    *)
(* 61); the Tk main loop runs every callback posted with after; and a      *)
(* worker thread that can run does run.  Nothing is assumed of the         *)
(* operator or of the device.                                              *)
(***************************************************************************)
TransferNext ==
    \/ OnConnect
    \/ ConnClose
    \/ ConnNull
    \/ ConnOpen
    \/ ConnDone
    \/ OnLoadFile
    \/ OnGammaLoad
    \/ DismissDialog
    \/ MainLoopEvent
    \/ SendCmd(MainThread)
    \/ \E id \in Workers : Runnable(id) /\ (SendCmd(id) \/ Worker(id))

\* a step of a handler that is under way on the main thread
MainStep ==
    \/ ConnClose \/ ConnNull \/ ConnOpen \/ ConnDone
    \/ DiscClose \/ DiscNull
    \/ CommandDone
    \/ SendCmd(MainThread)

\* the step in which send_cmd of thread t returns or raises
SendEnds(t) == SendCmd(t) /\ sc'[t].pc \in {"ret", "raise"}

\* a step of worker thread id
WorkerStep(id) == Runnable(id) /\ (SendCmd(id) \/ Worker(id))

Fairness ==
    /\ WF_vars(MainStep)
    /\ WF_vars(SendEnds(MainThread))
    /\ SF_vars(MainLoopEvent)
    /\ \A id \in Workers : SF_vars(WorkerStep(id))

FairSpec == Init /\ [][TransferNext]_vars /\ Fairness

(***************************************************************************)
(* The console of Spec with a second image file on the disk.               *)
(***************************************************************************)
ReloadNext ==
    \/ OnConnect
    \/ ConnClose
    \/ ConnNull
    \/ ConnOpen
    \/ ConnDone
    \/ OnDisconnect
    \/ DiscClose
    \/ DiscNull
    \/ OnCommand
    \/ CommandDone
    \/ OnLoadAnyFile
    \/ OnGammaLoad
    \/ DismissDialog
    \/ MainLoopEvent
    \/ SendCmd(MainThread)
    \/ \E id \in Workers : Runnable(id) /\ (SendCmd(id) \/ Worker(id))

ReloadSpec == Init /\ [][ReloadNext]_vars

(***************************************************************************)
(* Properties.                                                             *)
(***************************************************************************)
\* the job of worker id has ended, its thread still runs
Terminal(id) == wk[id].pc \in {"else1", "else2", "fin1", "fin2"}

\* this step hands a line of thread t to ser.write
Wrote(t) == Len(written'[t]) > Len(written[t])

\* the commands of the lines, in order
Cmds(lines) == [k \in 1..Len(lines) |-> lines[k].cmd]

\* the address fields of the lines worker id wrote, in order
WriteAddrs(id) == [k \in 1..Len(written[id]) |-> written[id][k].cmd[3]]

\* the address fields of the indices 0..n-1, in order
IndexAddrs(n) == [k \in 1..n |-> HexStr(GAMMA_BASE + ADDR_STEP * (k - 1))]

\* C1: while a gamma job is Running and has written its first word, no step
\* of any other thread hands a command to the transport.
C1_NoForeignCommand ==
    [][ \A id \in Workers :
            Running(id) /\ written[id] # <<>> =>
                \A t \in Threads \ {id} : ~Wrote(t) ]_vars

\* C2: at most one bulk transfer is Running at any time.
C2_SingleTransfer == Cardinality({id \in Workers : Running(id)}) <= 1

\* C3: a job that is Completed has written exactly GAMMA_WORDS commands, the
\* k-th of them to the address of index k-1: one per index 0..127, in order.
C3_CompletedWrites ==
    \A id \in Workers :
        JobStatus(id) = "Completed" =>
            /\ Len(written[id]) = GAMMA_WORDS
            /\ WriteAddrs(id) = IndexAddrs(GAMMA_WORDS)

C3_Witness ==
    \E id \in Workers :
        /\ JobStatus(id) = "Completed"
        /\ wk[id].pc = "fin2"
        /\ Len(written[id]) = GAMMA_WORDS

\* C4: when the transport raised on the write of index i (the k-th write,
\* k = i + 1), the job is Failed, it has attempted exactly k writes, those of
\* the indices 0..i, and stays so for as long as its thread runs: no retry,
\* no write for a later index.
C4_FailedAtWrite ==
    \A id \in Workers :
        wk[id].err = "write failed" =>
            /\ JobStatus(id) = "Failed"
            /\ Len(written[id]) = wk[id].i + 1
            /\ WriteAddrs(id) = IndexAddrs(wk[id].i + 1)

C4_Witness ==
    \E id \in Workers :
        /\ wk[id].err = "write failed"
        /\ wk[id].pc = "fin2"
        /\ wk[id].i = 2
        /\ Len(written[id]) = 3

C6_DisconnectFailsJob ==
    [][ \A id \in disc : JobStatus(id) # "Completed" /\ ~Wrote(id) ]_vars

\* C7: when send_cmd returns the empty string to the worker, the worker posts
\* the progress event of the index, adds 4 to the address and goes on to the
\* next index (or, after the last, to the completion); a job becomes Failed
\* only in a step that finds send_cmd raised, and ends before the last index
\* only as Failed.
C7_EmptyResponseContinues ==
    [][ \A id \in Workers :
            /\ (/\ wk[id].pc = "send"
                /\ Returned(sc[id])
                /\ sc[id].text = <<>>
                /\ wk'[id] # wk[id])
               => /\ wk'[id].err = "none"
                  /\ wk'[id].i = wk[id].i + 1
                  /\ wk'[id].base_addr = wk[id].base_addr + ADDR_STEP
                  /\ wk'[id].pc = IF wk[id].i + 1 < GAMMA_WORDS THEN "fmt" ELSE "else1"
                  /\ afterq' = Append(afterq, Event("progress", id, wk[id].i, <<>>))
            /\ (wk[id].err = "none" /\ wk'[id].err # "none" => Raised(sc[id]))
            /\ (Terminal(id) /\ wk[id].i < GAMMA_WORDS => wk[id].err # "none") ]_vars

C7_Witness ==
    \E id \in Workers :
        /\ Running(id)
        /\ wk[id].i = 2
        /\ wk[id].base_addr = GAMMA_BASE + 2 * ADDR_STEP
        /\ afterq # <<>>
        /\ afterq[Len(afterq)] = Event("progress", id, 1, <<>>)

\* C8: send_cmd called while the link is not connected raises "Not connected"
\* at once: the step writes nothing and leaves self.ser as it is.
C8_NotConnectedFails ==
    [][ \A t \in Threads :
            sc[t].pc = "chk" /\ ~IsConnected /\ sc'[t] # sc[t] =>
                /\ Raised(sc'[t])
                /\ sc'[t].exc = "Not connected"
                /\ written' = written
                /\ ser' = ser ]_vars

C8_Witness ==
    \E t \in Threads :
        /\ Raised(sc[t])
        /\ sc[t].exc = "Not connected"
        /\ ~IsConnected

\* C9: on a connected link a turn of the read loop raises only when readline
\* itself raised: the deadline never raises.  A send_cmd of the main thread
\* that returned without having read a line that is non-empty after cleaning
\* returned the empty string.
C9_DeadlineReturnsEmpty ==
    [][ /\ \A t \in Threads :
              sc[t].pc = "read" /\ IsConnected /\ sc'[t] # sc[t] =>
                  \/ Returned(sc'[t])
                  \/ Raised(sc'[t]) /\ sc'[t].exc = "read failed"
        /\ Returned(sc[MainThread]) /\ Clean(rx.last) = <<>> =>
              sc[MainThread].text = <<>> ]_vars

C9_Witness ==
    /\ Returned(sc[MainThread])
    /\ sc[MainThread].text = <<>>
    /\ IsConnected
    /\ rx.last = <<"CR", "LF">>
    /\ rx.skipped

\* C10: send_cmd of the main thread.  While it reads, every line it has read
\* was empty after cleaning; a line that is not empty after cleaning is
\* returned, cleaned, by the step that reads it, a line that is empty is not;
\* and once send_cmd returned, no further line is read by that call.
C10_FirstNonEmptyLine ==
    [][ /\ sc[MainThread].pc = "read" => Clean(rx.last) = <<>>
        /\ Returned(sc[MainThread]) /\ sc[MainThread].text # <<>> =>
              sc[MainThread].text = Clean(rx.last)
        /\ sc[MainThread].pc = "read" /\ rx' # rx =>
              IF Clean(rx'.last) # <<>>
              THEN Returned(sc'[MainThread]) /\ sc'[MainThread].text = Clean(rx'.last)
              ELSE sc'[MainThread].pc = "read"
        /\ Returned(sc[MainThread]) /\ rx' # rx => sc'[MainThread] = NoCall ]_vars

C10_Witness ==
    /\ Returned(sc[MainThread])
    /\ rx.skipped
    /\ rx.last = <<">", " ", "5", "CR", "LF">>
    /\ sc[MainThread].text = <<"5">>

\* C17: on a link that connect has just opened, no thread writes before
\* send_cmd("V OFF") of connect has written, and when that send_cmd returned
\* the one line written by connect is V OFF.
C17_VerboseOffFirst ==
    [][ /\ mpc = "c_send" /\ sc[MainThread].pc \in {"chk", "write"} =>
              \A t \in Workers : ~Wrote(t)
        /\ mpc = "c_send" /\ Returned(sc[MainThread]) =>
              Cmds(written[MainThread]) = << <<"V", "OFF">> >> ]_vars

\* C18: when connect fails for the cause e, the RuntimeError it raises names e,
\* _on_connect shows it, and the console stays as it is when not connected:
\* connect button enabled, no control UI.
C18_ConnectFailureSurfaced ==
    [][ mpc = "c_send" /\ Raised(sc[MainThread]) /\ mpc' = "idle" =>
            /\ dialog' = "Connection Error: Failed to open UART port COM3: "
                            \o sc[MainThread].exc
            /\ connect_btn' = connect_btn
            /\ control_frame' = control_frame ]_vars

C18_Witness ==
    /\ dialog = "Connection Error: Failed to open UART port COM3: could not open port"
    /\ mpc = "idle"
    /\ connect_btn
    /\ ~control_frame
    /\ ~IsConnected

\* C19: once send_cmd has raised for a failed write or read on the link, the
\* link is not connected.
C19_TransportErrorInvalidates ==
    \A t \in Threads :
        Raised(sc[t]) /\ sc[t].exc \in {"write failed", "read failed"} => ~IsConnected

\* a text of hex digits and nothing else
HexDigitsOnly(s) == s # <<>> /\ \A k \in 1..Len(s) : s[k] \in HexDigits

\* the canonical decimal text of an integer: digits after an optional '-',
\* no '+', no leading zero, and not "-0"
IsCanonicalDec(s) ==
    LET digits == IF s # <<>> /\ s[1] = "-" THEN Tail(s) ELSE s
    IN  /\ digits # <<>>
        /\ \A k \in 1..Len(digits) : digits[k] \in DecDigits
        /\ Len(digits) > 1 => digits[1] # "0"
        /\ s # <<"-", "0">>

\* the bound of the namespace of a signed row
NamespaceBound(op) == IF op.cmd_type = "T" THEN 255 ELSE 99

\* C11: a click on Write of a signed-decimal row calls send_cmd if and only if
\* the text is a base-10 integer within the bound of the namespace; otherwise
\* the handler returns without calling send_cmd, and nothing is written.  And
\* whatever the handler writes is the one command of an accepted text.
C11_SignedWriteGate ==
    [][ /\ OnWrite /\ entry'.row.mode = "signed" =>
              LET v == entry'.text
                  b == NamespaceBound(entry'.row)
                  accepted == /\ IsInt10(v)
                              /\ Int10(v) >= 0 - b
                              /\ Int10(v) <= b
              IN  IF accepted
                  THEN mpc' = "write_op" /\ sc'[MainThread].pc = "chk"
                  ELSE mpc' = "idle" /\ sc' = sc /\ written' = written
        /\ mpc = "idle" => ~Wrote(MainThread) ]_vars

C11_Witness ==
    /\ mpc = "write_op"
    /\ entry.row = Button("_write", "02", "T", "signed")
    /\ entry.text = <<"-", "2", "5", "5">>
    /\ Cmds(written[MainThread]) = << <<"T", "W", "02", <<"-", "2", "5", "5">> >> >>

\* C12: the value token a signed-decimal write sends is the canonical decimal
\* text of the integer the input stands for.
C12_CanonicalDecimal ==
    mpc = "write_op" /\ entry.row.mode = "signed" =>
        LET token == sc[MainThread].cmd[4]
        IN  /\ IsCanonicalDec(token)
            /\ Int10(token) = Int10(entry.text)
            /\ \A k \in 1..Len(written[MainThread]) :
                  written[MainThread][k].cmd = sc[MainThread].cmd

C12_Witness ==
    /\ mpc = "write_op"
    /\ entry.text = <<"+", "0", "7">>
    /\ Cmds(written[MainThread]) = << <<"C", "W", "05", <<"7">> >> >>

\* C13: for a hex-mode write whose input is a hex token H, with or without
\* the prefix, the handler sends for H, for 0x H and for 0X H the same command.
C13_PrefixStripped ==
    mpc = "write_op" /\ entry.row.mode = "hex" =>
        LET H == Strip0x(Strip(entry.text))
        IN  HexDigitsOnly(H) =>
              /\ WriteOutcome(entry.row, <<"0", "x">> \o H) = WriteOutcome(entry.row, H)
              /\ WriteOutcome(entry.row, <<"0", "X">> \o H) = WriteOutcome(entry.row, H)
              /\ sc[MainThread].cmd = WriteOutcome(entry.row, H).cmd

\* C14: a hex-mode register write (a row of _write) hands a command to the
\* transport only for a text that, without its 0x, is a string of hex digits.
C14_HexDigitsOrRejected ==
    /\ mpc = "write_op"
    /\ entry.row.h = "_write"
    /\ entry.row.mode = "hex"
    /\ written[MainThread] # <<>>
    => HexDigitsOnly(Strip0x(Strip(entry.text)))

\* C15: the writes of the FPGA status word, of the BLC offsets and of the
\* clamp registers hand a command to the transport only for a text that,
\* without its 0x, int(text, 16) accepts.
C15_ImmediateWriteValidated ==
    /\ mpc = "write_op"
    /\ entry.row.h \in {"_write_gamma_status", "_write_blc_offset", "_write_clamp"}
    /\ written[MainThread] # <<>>
    => IsInt16(Strip0x(Strip(entry.text)))

\* C16: when send_cmd returned the empty string to a read handler, the
\* handler shows no error and the entry box holds no value it did not hold
\* before: it is cleared or left as it was.
C16_EmptyResponseShowsNothing ==
    [][ /\ mpc = "read_op"
        /\ Returned(sc[MainThread])
        /\ sc[MainThread].text = <<>>
        /\ mpc' = "idle"
        => /\ dialog' = dialog
           /\ entry'.text \in {<<>>, entry.text} ]_vars

\* C20: disconnect returns with the link not connected, whatever the link was
\* before and whether or not close raised; a second call right after the
\* first finds no handle and changes nothing.
C20_DisconnectIdempotent ==
    [][ /\ mpc \in {"l_done", "l_done2"} => ser = "None" /\ ~IsConnected
        /\ mpc = "l_done" /\ mpc' # "idle" =>
              /\ mpc' = "l_done2"
              /\ UNCHANGED <<ser, sc, rx, written, disc, dialog, entry>> ]_vars

C20_Witness ==
    /\ mpc = "l_done2"
    /\ ser = "None"

\* C21: every test of is_connected() answers true exactly when the link
\* holds a handle and the handle is open: send_cmd goes on to its write from
\* such a state and raises "Not connected" from any other, and a gamma job is
\* started only from such a state.
C21_ConnectedIffOpenHandle ==
    [][ /\ \A t \in Threads :
              sc[t].pc = "chk" /\ sc'[t].pc # "chk" =>
                  IF ser \notin {"None", "closed"}
                  THEN sc'[t].pc = "write"
                  ELSE sc'[t].pc = "raise" /\ sc'[t].exc = "Not connected"
        /\ OnGammaLoad /\ wk' # wk => ser \notin {"None", "closed"}
        /\ OnGammaLoad /\ gamma_mem # 0 /\ ser \in {"None", "closed"} =>
              dialog' = "Not connected" ]_vars

\* send_cmd tested a link whose handle exists and is closed
C21_Witness ==
    \E t \in Threads :
        /\ Raised(sc[t])
        /\ sc[t].exc = "Not connected"
        /\ ser = "closed"

\* C22: serial.Serial is called only when the link holds no handle: a connect
\* on a link that holds one has called close on it and dropped it before.
C22_OneHandle ==
    [][ /\ mpc' = "c_open" => ser' = "None"
        /\ mpc = "idle" /\ ser # "None" /\ mpc' \in {"c_close", "c_null", "c_open", "c_send"}
              => mpc' = "c_close"
        /\ mpc = "c_close" /\ mpc' # mpc => mpc' = "c_null" /\ ser' \in {"closed", ser}
        /\ mpc = "c_null" /\ mpc' # mpc => mpc' = "c_open" ]_vars

\* connect was called on a link that held a handle; the handle is closed,
\* the new one not yet opened
C22_Witness ==
    /\ mpc = "c_null"
    /\ ser = "closed"

\* a file an image can come from: GAMMA_WORDS lines that are not blank, the
\* first token of each a hex number from 0 to 0xFFFFFFFF
WellFormed(f) ==
    /\ f # LockedFile
    /\ Len(Items(f)) = GAMMA_WORDS
    /\ \A k \in 1..Len(Items(f)) :
          LET token == FileToken(Items(f)[k]) IN
          /\ IsInt16(token)
          /\ ~Int16(token).neg \/ (Int16(token).hi = 0 /\ Int16(token).lo = 0)
          /\ Int16(token).hi < 65536

WellFormedFiles == {f \in Files : WellFormed(f)}

\* C23: the image stored always has exactly GAMMA_WORDS words, each from 0 to
\* 0xFFFFFFFF, and comes from a well-formed file; a load of a file that is
\* not well formed stores nothing, keeps the image there was, and ends with
\* a message box.
C23_StoredImageWellFormed ==
    [][ /\ gamma_mem' # gamma_mem =>
              /\ gamma_mem' \in WellFormedFiles
              /\ ImageLen(gamma_mem') = GAMMA_WORDS
              /\ \A i \in 0..(GAMMA_WORDS - 1) :
                    LET word == Word(gamma_mem', i) IN
                    /\ ~word.neg \/ (word.hi = 0 /\ word.lo = 0)
                    /\ word.hi \in 0..65535 /\ word.lo \in 0..65535
        /\ \A f \in Files \ WellFormedFiles :
              OnLoadFile /\ dialog' = Loads[f].dialog =>
                  /\ gamma_mem' = gamma_mem
                  /\ dialog' \in {"Invalid file", "Parse error", "Value out of range", "Error"} ]_vars

\* an image is stored, and a later load of a file with a 33-bit word was refused
C23_Witness ==
    /\ gamma_mem \in Images
    /\ dialog = "Value out of range"

\* the step posts a callback: the queue grows by one at its tail
Posts == Len(afterq') = Len(afterq) + 1 /\ SubSeq(afterq', 1, Len(afterq)) = afterq

Posted == afterq'[Len(afterq')]

C25_FailureSurfacedOnce ==
    [][ \A id \in Workers :
            /\ Posts /\ Posted.by = id /\ Posted.k = "error" =>
                  wk[id].err = "none" /\ wk'[id].err # "none" /\ Posted.i = wk[id].i
            /\ wk[id].err = "none" /\ wk'[id].err # "none" =>
                  Posts /\ Posted.by = id /\ Posted.k = "error"
            /\ wk[id].err # "none" /\ Posts /\ Posted.by = id =>
                  Posted.k \in {"enable_load", "enable_file"}
            /\ wk[id].err # "none" => wk'[id].pc \notin {"fmt", "send", "else1", "else2"}
            /\ wk'[id].pc = "else2" /\ wk[id].pc # "else2" =>
                  wk[id].pc = "else1" /\ Posts /\ Posted.by = id /\ Posted.k = "done_label"
            /\ wk'[id].pc = "fin1" /\ wk[id].pc # "fin1" /\ wk'[id].err = "none" =>
                  wk[id].pc = "else2" /\ Posts /\ Posted.by = id /\ Posted.k = "done_log" ]_vars

\* a Failed job at the end of its thread, its failure event handled: the
\* message box shows it
C25_Witness ==
    \E id \in Workers :
        /\ wk[id].err = "write failed"
        /\ wk[id].pc = "fin2"
        /\ dialog = "Write error"

\* the registers of the rows: lines 16, 30-34 and 37-41
SensorRegisters    == {"0157", "015A", "015B"}
CcmAddresses       == {"05", "06", "07", "08", "09", "0A", "0B", "0C", "0D"}
TranslationAddresses == {"02", "03", "04"}

\* the namespace letter of the register a row stands for
Namespace(addr) ==
    CASE addr \in SensorRegisters      -> "S"
      [] addr \in CcmAddresses         -> "C"
      [] addr \in TranslationAddresses -> "T"

\* a text as a string
RECURSIVE Str(_)
Str(s) == IF s = <<>> THEN "" ELSE s[1] \o Str(Tail(s))

\* the line send_cmd is given for a command of a register row
Line(cmd) ==
    cmd[1] \o " " \o cmd[2] \o " " \o cmd[3]
        \o (IF Len(cmd) = 4 THEN " " \o Str(cmd[4]) ELSE "")

\* the line send_cmd is given for a command of five tokens
Line5(cmd) == cmd[1] \o " " \o cmd[2] \o " " \o cmd[3] \o " " \o cmd[4] \o " " \o cmd[5]

\* C26: the line a register row sends is '<NS> <OP> <addr>' and, for a
\* write, ' <value>': NS is S for a sensor register, C for a CCM coefficient,
\* T for a translation coefficient, OP is R for Read and W for Write, addr is
\* the address of the row, and value is the value token of the input.
C26_RouterLine ==
    mpc \in {"write_op", "read_op"} /\ entry.row.h \in {"_write", "_read"} =>
        LET row  == entry.row
            cmd  == sc[MainThread].cmd
            head == Namespace(row.addr) \o " "
                      \o (IF mpc = "read_op" THEN "R" ELSE "W") \o " " \o row.addr
        IN  /\ Len(cmd) = IF mpc = "read_op" THEN 3 ELSE 4
            /\ Line(cmd) = IF mpc = "read_op" THEN head ELSE head \o " " \o Str(cmd[4])
            /\ mpc = "write_op" =>
                  cmd[4] = IF row.mode = "hex" THEN Strip0x(Strip(entry.text))
                           ELSE IntStr(Int10(entry.text))
            /\ \A k \in 1..Len(written[MainThread]) : written[MainThread][k].cmd = cmd
            /\ mpc = "write_op" /\ row.addr = "05" /\ entry.text = <<"5", "0">> =>
                  Line(cmd) = "C W 05 50"
            /\ mpc = "write_op" /\ row.addr = "0157" /\ entry.text = <<"0", "x", "1", "F">> =>
                  Line(cmd) = "S W 0157 1F"

\* 'C W 05 50' was written for the input 50 on the row of CCM address 05
C26_Witness ==
    /\ mpc = "write_op"
    /\ entry.row.addr = "05"
    /\ entry.text = <<"5", "0">>
    /\ Len(written[MainThread]) = 1
    /\ Line(written[MainThread][1].cmd) = "C W 05 50"

\* C27: a register row shows a response that is not empty as follows: a row
\* in hex mode shows it without a leading 0x (or 0X), a row in signed mode
\* shows it exactly as received, prefix included.
C27_DisplayDirection ==
    [][ /\ mpc = "read_op" /\ mpc' = "idle"
        /\ entry.row.h = "_read"
        /\ Returned(sc[MainThread]) /\ sc[MainThread].text # <<>>
        => LET resp     == sc[MainThread].text
               prefixed == Len(resp) >= 2 /\ resp[1] = "0" /\ resp[2] \in {"x", "X"}
           IN  /\ entry.row.mode = "signed" => entry'.text = resp
               /\ entry.row.mode = "hex" /\ ~prefixed => entry'.text = resp
               /\ entry.row.mode = "hex" /\ prefixed =>
                     entry'.text = SubSeq(resp, 3, Len(resp)) ]_vars

\* a row in signed mode shows a response that begins with 0x, prefix included
C27_Witness ==
    /\ mpc = "idle"
    /\ entry.row.h = "_read"
    /\ entry.row.mode = "signed"
    /\ entry.text = <<"0", "x", "1", "F">>

\* the command of index i of the image stored: the address 0x51700 + 4 * i
\* in upper case hex digits without padding, and the digits of the word as
\* the generator of the file wrote them
IndexCmd(i) ==
    LET w == GenWord(gamma_mem, i + 1)
    IN  <<"F", "W", HexStr(GAMMA_BASE + ADDR_STEP * i), "00",
          Str(HexChars(w.hi, 4) \o HexChars(w.lo, 4))>>

C29_EventThenWriteThenAdvance ==
    [][ \A id \in Workers :
            /\ sc[id].pc = "none" /\ sc'[id].pc # "none" =>
                  /\ Posts
                  /\ Posted = Event("log_cmd", id, wk[id].i, sc'[id].cmd)
                  /\ written' = written
                  /\ Len(written[id]) = wk[id].i
            /\ Wrote(id) => sc[id].pc = "write" /\ Cmds(written'[id]) = Append(Cmds(written[id]), sc[id].cmd)
            /\ (/\ wk[id].pc \notin {"unborn", "start"}
                /\ wk'[id].pc # "unborn"
                /\ wk'[id].base_addr # wk[id].base_addr)
               => /\ Returned(sc[id])
                  /\ wk'[id].base_addr = wk[id].base_addr + 4
            /\ Raised(sc[id]) /\ wk'[id] # wk[id] =>
                  /\ wk'[id].base_addr = wk[id].base_addr
                  /\ wk'[id].i = wk[id].i ]_vars

\* the send of index 2 raised after indices 0 and 1 went through: the
\* address stands at 0x51708
C29_Witness ==
    \E id \in Workers :
        /\ wk[id].err # "none"
        /\ wk[id].i = 2
        /\ wk[id].base_addr = GAMMA_BASE + 8
        /\ wk[id].pc = "fin1"

\* C30: a job leaves Running only in a step of its worker that finds
\* send_cmd raised, or returned for the last index; so a job that has ended
\* with fewer commands written than the image has words is Failed, by a send
\* that raised at the last index it tried.  No step of the main thread
\* changes the position of a running job.
C30_StopsOnlyOnError ==
    [][ \A id \in Workers :
            /\ wk[id].pc \in {"fmt", "send"} /\ wk'[id].pc \notin {"fmt", "send"} =>
                  /\ wk[id].pc = "send"
                  /\ \/ Raised(sc[id]) /\ wk'[id].err = sc[id].exc /\ wk'[id].i = wk[id].i
                     \/ Returned(sc[id]) /\ wk[id].i + 1 = Min(ImageLen(gamma_mem), GAMMA_WORDS)
            /\ Terminal(id) /\ Len(written[id]) < Min(ImageLen(gamma_mem), GAMMA_WORDS) =>
                  /\ wk[id].err # "none"
                  /\ Len(written[id]) \in {wk[id].i, wk[id].i + 1}
            /\ (/\ Running(id)
                /\ \/ mpc' # mpc \/ dialog' # dialog \/ ser' # ser
                   \/ control_frame' # control_frame \/ gamma_mem' # gamma_mem)
               => wk'[id] = wk[id] /\ sc'[id] = sc[id] ]_vars

\* a job that ended after two commands, the send of the second having raised
C30_Witness ==
    \E id \in Workers :
        /\ Terminal(id)
        /\ Len(written[id]) = 2
        /\ wk[id].i = 1
        /\ wk[id].err = "read failed"

(***************************************************************************)
(* Response cleaning, lines 120-128.                                       *)
(***************************************************************************)
\* the text is the line from its a-th to its b-th character
IsSlice(text, line, a, b) ==
    /\ 1 <= a /\ a <= b /\ b <= Len(line)
    /\ text = SubSeq(line, a, b)

\* C32 as stated: the Response is the line without one leading prompt marker
\* (one '>' and the whitespace after it) and without surrounding whitespace,
\* so that a second '>' stays in the Response.
C32_SingleMarkerRemoved ==
    Returned(sc[MainThread]) /\ sc[MainThread].text # <<>> =>
        sc[MainThread].text = CleanSingleMarker(rx.last)

\* C32, amended: the Response is the decoded line without the whole run of
\* '>' and space characters at its front and without surrounding whitespace,
\* and nothing more: it is the slice of the decoded line between a front that
\* holds only '>', spaces and whitespace and a back that holds only
\* whitespace, and it begins with none of these characters.
C32_LeadingRunRemoved ==
    Returned(sc[MainThread]) /\ sc[MainThread].text # <<>> =>
        LET line == DecodeAscii(rx.last)
            text == sc[MainThread].text
        IN  /\ Head(text) \notin PromptChars \cup WhiteSpace
            /\ text[Len(text)] \notin WhiteSpace
            /\ \E a, b \in 1..Len(line) :
                  /\ IsSlice(text, line, a, b)
                  /\ \A k \in 1..(a - 1) : line[k] \in PromptChars \cup WhiteSpace
                  /\ \A k \in (b + 1)..Len(line) : line[k] \in WhiteSpace

C32_Witness ==
    /\ Returned(sc[MainThread])
    /\ rx.last = <<">", ">", " ", "5", "LF">>
    /\ sc[MainThread].text = <<"5">>

(***************************************************************************)
(* The hex branch of _write, lines 758-772.                                *)
(***************************************************************************)
\* the text is nothing but the prefix 0x or 0X
PrefixOnly(value) == value \in {<<"0", "x">>, <<"0", "X">>}

Namespaces == {"S", "C", "T", "F", "G", "V"}
Operations == {"R", "W", "U"}

\* every line a thread has written
WrittenLines == UNION { {written[t][k] : k \in 1..Len(written[t])} : t \in Threads }

\* C34 as stated: every line written ends in CR LF and is
\* '<NS> <OP> <ADDR>' or '<NS> <OP> <ADDR> <VALUE>', NS one of S, C, T, F, G,
\* V and OP one of R, W, U.
C34_OneLineForm ==
    \A line \in WrittenLines :
        /\ line.eol = <<"CR", "LF">>
        /\ Len(line.cmd) \in {3, 4}
        /\ line.cmd[1] \in Namespaces
        /\ line.cmd[2] \in Operations

\* the forms of the commands the program sends
IsCommand(cmd) ==
    CASE cmd[1] = "V" -> cmd = <<"V", "OFF">>
      [] cmd[1] = "G" -> Len(cmd) = 2 /\ cmd[2] # <<>>
      [] cmd[1] \in {"S", "C", "T"} ->
            \/ Len(cmd) = 3 /\ cmd[2] = "R"
            \/ Len(cmd) = 4 /\ cmd[2] = "W" /\ cmd[4] # <<>>
            \/ cmd = <<"C", "U">>
      [] cmd[1] = "F" ->
            \/ Len(cmd) = 4 /\ cmd[2] = "R"
            \/ Len(cmd) = 5 /\ cmd[2] = "W"
      [] OTHER -> FALSE

\* C34, amended: every line written ends in CR LF and begins with one of the
\* namespace letters S, C, T, F, G, V.  An S, C or T line is '<NS> R <ADDR>'
\* or '<NS> W <ADDR> <VALUE>', or is 'C U'; an F line is
\* 'F R <ADDR> <OFFSET>' or 'F W <ADDR> <OFFSET> <DATA>'; a G line is
\* 'G <VALUE>', without operation and address; the V line is 'V OFF'.
C34_LineForms ==
    \A line \in WrittenLines :
        /\ line.eol = <<"CR", "LF">>
        /\ line.cmd[1] \in Namespaces
        /\ IsCommand(line.cmd)

\* a status write of five tokens is on the wire
C34_Witness ==
    /\ mpc = "write_op"
    /\ entry.row.h = "_write_gamma_status"
    /\ Len(written[MainThread]) = 1
    /\ written[MainThread][1].eol = <<"CR", "LF">>
    /\ Len(written[MainThread][1].cmd) = 5

(***************************************************************************)
(* Whose reply send_cmd returns, lines 109-131.                            *)
(***************************************************************************)
\* C35: the Response send_cmd returns is a line the device sent in reply to
\* the command of that call: never the reply to an earlier command that
\* arrived after that command's deadline.
C35_ResponseIsOwnReply ==
    Returned(sc[MainThread]) /\ sc[MainThread].text # <<>> => ~rx.stale

(***************************************************************************)
(* The link after connect, lines 52-70.                                    *)
(***************************************************************************)
\* C36: when connect raises, whether serial.Serial raised or send_cmd("V OFF")
\* raised on the port just opened, the link is not connected afterwards.
C36_FailedConnectNotConnected ==
    [][ mpc = "c_send" /\ Raised(sc[MainThread]) /\ mpc' = "idle" => ~IsConnected' ]_vars

(***************************************************************************)
(* What a load leaves in self.gamma_mem, lines 889-935.                    *)
(***************************************************************************)
\* the message boxes a load can end with
LoadErrors == {"Invalid file", "Parse error", "Value out of range", "Error"}

\* C38: a click on "Load .mem file" that ends with a message box, or whose
\* file dialog is cancelled, leaves the stored image as it was; the stored
\* image changes only to the complete list of a file whose GAMMA_WORDS lines
\* all parsed and passed the range test, and then no message box is shown.
C38_FailedLoadKeepsImage ==
    [][ OnLoadFile =>
          /\ dialog' # dialog => dialog' \in LoadErrors /\ gamma_mem' = gamma_mem
          /\ gamma_mem' # gamma_mem =>
                LET items == Items(gamma_mem') IN
                /\ dialog' = dialog
                /\ Len(items) = GAMMA_WORDS
                /\ \A k \in 1..GAMMA_WORDS : ItemFault(items, k) = "none"
                /\ ImageLen(gamma_mem') = GAMMA_WORDS ]_vars

\* an image is stored, and a later load stopped at a line that is no number
C38_Witness ==
    /\ gamma_mem \in Images
    /\ dialog = "Parse error"

(***************************************************************************)
(* connect and a device that does not answer, lines 52-70 and 115-131.     *)
(***************************************************************************)
\* C39: when send_cmd("V OFF") of connect returned the empty string, connect
\* returns True: the link is connected, _on_connect shows no error, disables
\* the connect button and builds the control UI.
C39_SilentDeviceConnects ==
    [][ /\ mpc = "c_send"
        /\ Returned(sc[MainThread])
        /\ sc[MainThread].text = <<>>
        /\ mpc' = "idle"
        => /\ IsConnected'
           /\ dialog' = dialog
           /\ ~connect_btn'
           /\ control_frame' ]_vars

\* the deadline of V OFF passed without a line from the device, and connect
\* is about to return True
C39_Witness ==
    /\ mpc = "c_send"
    /\ Returned(sc[MainThread])
    /\ sc[MainThread].cmd = <<"V", "OFF">>
    /\ sc[MainThread].text = <<>>
    /\ rx.last = NoLine
    /\ IsConnected

(***************************************************************************)
(* The image a transfer writes, lines 958-967, 974-981, 889-935.           *)
(***************************************************************************)
\* C37: the words a bulk transfer has written are, in order, the first words
\* of one image: the image stored is not replaced while the job runs.
C37_WordsOfOneImage ==
    \A id \in Workers :
        \E img \in Images \cup {OtherImage} :
            \A k \in 1..Len(written[id]) :
                written[id][k].cmd[5] = Hex8(Word(img, k - 1))

====
